---- MODULE Spec2Model ----
(***************************************************************************)
(* The RMAP client handshake of gulshan4kainth/softsec, in its four        *)
(* script variants:                                                        *)
(*   "fixed"  src/fixed_rmap_client.py                                     *)
(*   "test"   src/rmap_client_test.py                                      *)
(*   "pdf"    src/rmap_client_pdf_getting.py                               *)
(*   "group"  src/test_group_rmap.py                                       *)
(* One run of one script is one behaviour.  The peer is unconstrained: at  *)
(* every receive step it answers with any response of a bounded set.       *)
(* Spec is that run.  SpecCodec applies the envelope codec (seal, open) to *)
(* bounded mappings on its own; SpecDup runs the four scripts side by side *)
(* against one peer.                                                       *)
(***************************************************************************)
EXTENDS Integers, Sequences, FiniteSets, TLC

\* ------------------------------------------------------------------ bounds

\* Width of a nonce in the model: secrets.randbits(64) is scaled down to
\* randbits(NonceBits), so that TwoToW stands for 2^64.
NonceBits == 2

RECURSIVE Pow2(_)
Pow2(k) == IF k = 0 THEN 1 ELSE 2 * Pow2(k - 1)

TwoToW == Pow2(NonceBits)

Nonces == 0 .. (TwoToW - 1)

\* ------------------------------------------------------------ JSON values

\* A JSON value as json.loads returns it: t is the Python type, n the number
\* (for a float: twice its value, so that halves are representable), s the
\* characters of a string.
JVal(t, n, s) == [t |-> t, n |-> n, s |-> s]

JInt(n) == JVal("int", n, <<>>)
JFloat(h) == JVal("float", h, <<>>)
JStr(s) == JVal("str", 0, s)
JBool(b) == JVal("bool", IF b THEN 1 ELSE 0, <<>>)
JNull == JVal("null", 0, <<>>)
JList == JVal("list", 0, <<>>)
\* An opaque text as a JSON string.
JText(str) == JVal("str", 0, <<str>>)
\* A Python tuple (empty), which JSON does not have.
PyTuple == JVal("tuple", 0, <<>>)
\* The marker of a key that is absent from a dict.
Missing == JVal("missing", 0, <<>>)

Digits == <<"0", "1", "2", "3", "4", "5", "6", "7", "8", "9">>

DigitVal(c) == (CHOOSE i \in 1 .. 10 : Digits[i] = c) - 1

IsDigit(c) == \E i \in 1 .. 10 : Digits[i] = c

\* str(n) for n >= 0.
RECURSIVE DecStr(_)
DecStr(n) == IF n < 10 THEN <<Digits[n + 1]>>
             ELSE Append(DecStr(n \div 10), Digits[(n % 10) + 1])

RECURSIVE DigitsVal(_)
DigitsVal(s) == IF s = <<>> THEN 0
                ELSE 10 * DigitsVal(SubSeq(s, 1, Len(s) - 1)) + DigitVal(s[Len(s)])

AllDigits(s) == s # <<>> /\ \A i \in 1 .. Len(s) : IsDigit(s[i])

\* The result of a Python expression that may raise.
Raise == [ok |-> FALSE, n |-> 0]
Ok(n) == [ok |-> TRUE, n |-> n]

\* int(s) for a str: an optional sign and decimal digits; anything else
\* (a decimal point, letters, the empty string) raises ValueError.
PyIntOfStr(s) ==
    IF AllDigits(s) THEN Ok(DigitsVal(s))
    ELSE IF Len(s) > 1 /\ s[1] = "-" /\ AllDigits(Tail(s)) THEN Ok(0 - DigitsVal(Tail(s)))
    ELSE Raise

\* int(x) of a float given in halves: truncation towards zero.
TruncHalves(h) == IF h >= 0 THEN h \div 2 ELSE 0 - ((0 - h) \div 2)

\* Python's int(v): an int is itself, a bool is 0 or 1, a float is truncated
\* towards zero, a str is parsed; None, a list and a missing key raise.
PyInt(v) ==
    CASE v.t = "int" -> Ok(v.n)
      [] v.t = "bool" -> Ok(v.n)
      [] v.t = "float" -> Ok(TruncHalves(v.n))
      [] v.t = "str" -> PyIntOfStr(v.s)
      [] OTHER -> Raise

\* Python's v == n for an int n: numbers compare by value (1.0 == 1 and
\* True == 1), every other type is unequal to an int.
PyEqInt(v, n) ==
    CASE v.t = "int" -> v.n = n
      [] v.t = "bool" -> v.n = n
      [] v.t = "float" -> v.n = 2 * n
      [] OTHER -> FALSE

\* The values the peer may put in a field of its first response.
FieldValues ==
    {JInt(n) : n \in (0 - 1) .. TwoToW}
        \cup {JFloat(2), JFloat(3)}
        \cup {JStr(DecStr(1)), JStr(<<"x">>), JStr(<<"1", ".", "5">>)}
        \cup {JNull, JList, JBool(TRUE)}

\* --------------------------------------------------------- configuration

Variants == {"fixed", "test", "pdf", "group"}

\* The two scripts built on requests (module-level decrypt_from_server) and
\* the two built on urllib (a client class whose decrypt unlocks always).
RequestsVariants == {"fixed", "test"}
UrllibVariants == {"pdf", "group"}

IDENTITY == "Group_04"

SERVER_PUB_KEY_CANDIDATES ==
    <<"pub.asc", "keys/public.asc", "keys/public.pgp", "tatou/keys/server/pub.asc">>

\* What CLIENT_PRIV_PASSPHRASE may be set to: None, the key's passphrase, or
\* another string.
Passphrases == {"None", "right", "wrong"}

\* Fingerprints: "C" is the client's own key, "S" the peer's, "X" any other.
ClientFp == "C"
ServerFps == {"S", "C"}

\* What a key file on disk may hold.
KeyFiles == {"missing", "unloadable", "public", "private", "protected"}

Statuses == {200, 204, 304, 404, 500}

ContentTypes == {"application/pdf", "text/html", "application/pdf; charset=binary", "None"}

Contents == {"%PDF", "<html>"}

\* -------------------------------------------------------------- the state

VARIABLES
    variant,          \* which script runs
    passphrase,       \* CLIENT_PRIV_PASSPHRASE / YOUR_PASSPHRASE
    pc,               \* position of the script
    server_pub_key,   \* the loaded peer public key
    client_priv_key,  \* the loaded client key
    unlocked,         \* the protected key material is unlocked right now
    nonce_client,     \* secrets.randbits(64), once generated
    requests,         \* every HTTP request issued so far, in order
    inflight,         \* a request waits for its response
    payload_b64,      \* the "payload" of the first response
    dec,              \* outcome of the decrypt inside decrypt_from_server
    obj1,             \* the decrypted first response
    nonce_server,     \* the value adopted from obj1
    resp2,            \* the body of the second response
    link_token,       \* resp2["result"]
    pdf_resp,         \* the artifact response
    file,             \* the output file
    exit_code,        \* the process exit status, once the run has ended
    status_code,      \* history: the status of the latest response to a
                      \* handshake or download request (0: none yet)
    probed,           \* history: the connectivity probe raised or was
                      \* answered ("no": not probed)
    key_error,        \* history: a key file was missing or unparsable, or
                      \* the client key file held only a public key
    fault,            \* history: the first failed step of the run, as the
                      \* peer's input shows it, and the requests sent by then
    compared,         \* history: the value the echoed nonceClient was
                      \* compared against
    codec,            \* the envelope codec applied to a mapping on its own
    dup,              \* the four scripts run side by side against one peer
    lookup            \* find_and_load_server_key run on given candidate files

\* The state of one run of one script.
run == <<variant, passphrase, pc, server_pub_key, client_priv_key, unlocked,
         nonce_client, requests, inflight, payload_b64, dec, obj1,
         nonce_server, resp2, link_token, pdf_resp, file, exit_code,
         status_code, probed, key_error, fault, compared>>

vars == <<run, codec, dup, lookup>>

\* What a run leaves alone: the codec, the scripts run side by side and the
\* key lookup on given files.
apart == <<codec, dup, lookup>>

cfg == <<variant, passphrase>>
keys == <<server_pub_key, client_priv_key>>
net == <<requests, inflight>>
hs == <<nonce_client, payload_b64, dec, obj1, nonce_server, resp2, link_token,
        pdf_resp, file, compared>>

NoKey == [loaded |-> FALSE, is_public |-> FALSE, is_protected |-> FALSE,
          fp |-> "", path |-> 0]
PubKey(fp, path) == [loaded |-> TRUE, is_public |-> TRUE, is_protected |-> FALSE,
                     fp |-> fp, path |-> path]
PrivKey(fp, protected) == [loaded |-> TRUE, is_public |-> FALSE,
                           is_protected |-> protected, fp |-> fp, path |-> 0]

\* PGPKey.from_file of a key file: the key it yields.
KeyOfFile(kind, fp) ==
    CASE kind = "public" -> PubKey(fp, 0)
      [] kind = "private" -> PrivKey(fp, FALSE)
      [] kind = "protected" -> PrivKey(fp, TRUE)
      [] OTHER -> NoKey

None == [set |-> FALSE, n |-> 0]
Some(n) == [set |-> TRUE, n |-> n]

NoDoc == [shape |-> "none", nonceClient |-> Missing, nonceServer |-> Missing]
NoPayload == [kind |-> "none", to |-> "", doc |-> NoDoc]
NoSeal == [to |-> "", plain |-> <<>>]
NoBody2 == [shape |-> "none", has_result |-> FALSE, result |-> Missing]
NoResp3 == [status |-> 0, ctype |-> "None", content |-> ""]
NoFile == [written |-> FALSE, name |-> "", content |-> ""]
NoFault == [kind |-> "none", reqs |-> 0]

\* No mapping is in the codec.
NoCodec == [pc |-> "idle", m |-> <<>>, other |-> <<>>, pub |-> NoKey, priv |-> NoKey,
            sealed |-> NoSeal, sealed_other |-> NoSeal,
            opened |-> [ok |-> FALSE, obj |-> <<>>]]

\* No scripts run side by side.
NoDup == [step |-> "idle", nonce |-> 0, alive |-> <<>>, reqs |-> <<>>, carry |-> <<>>,
          written |-> <<>>]

\* No key lookup is under way.
NoLookup == [pc |-> "idle", files |-> <<>>, fp |-> "", i |-> 0, key |-> NoKey]

\* The state of a script before its first statement.
Start ==
    /\ pc = "start"
    /\ server_pub_key = NoKey
    /\ client_priv_key = NoKey
    /\ unlocked = FALSE
    /\ nonce_client = None
    /\ requests = <<>>
    /\ inflight = FALSE
    /\ payload_b64 = NoPayload
    /\ dec = "none"
    /\ obj1 = NoDoc
    /\ nonce_server = Missing
    /\ resp2 = NoBody2
    /\ link_token = Missing
    /\ pdf_resp = NoResp3
    /\ file = NoFile
    /\ exit_code = None
    /\ status_code = 0
    /\ probed = "no"
    /\ key_error = FALSE
    /\ fault = NoFault
    /\ compared = None

Init ==
    /\ variant \in Variants
    /\ passphrase \in Passphrases
    /\ Start
    /\ codec = NoCodec
    /\ dup = NoDup
    /\ lookup = NoLookup

\* An HTTP request: method, path, the link token of a get-version path, and
\* the sealed envelope of a POST body {"payload": ...}.
Req(method, path, token, sealed) ==
    [method |-> method, path |-> path, token |-> token, payload |-> sealed]

Sent(path) == \E i \in 1 .. Len(requests) : requests[i].path = path

\* The exit status with which a variant ends a failed run: fixed returns
\* False (sys.exit(1)), test dies of SystemExit or an uncaught exception,
\* pdf calls sys.exit(1), group returns from main.
FailCode(v) == IF v = "group" THEN 0 ELSE 1

\* The run ends in failure.
Fail ==
    /\ pc' = "failed"
    /\ exit_code' = Some(FailCode(variant))

\* History of the first failed step (kind), with the requests sent by then.
NoteFault(kind) ==
    IF fault.kind = "none" /\ kind # "none"
    THEN [kind |-> kind, reqs |-> Len(requests)]
    ELSE fault

\* ------------------------------------------------------- envelope codec

\* A Python dict is the sequence of its <<key, value>> items in insertion
\* order; a key is a str (JText) or an int (JInt).

\* The str keys of the model, in ascending (code point) order.
KeyOrder == <<"a", "b", "identity", "nonceClient", "nonceServer">>

KeyRank(k) == CHOOSE i \in 1 .. Len(KeyOrder) : <<KeyOrder[i]>> = k.s

\* k1 < k2 for two keys of one type: ints by value, strs by code points.
KeyLess(k1, k2) ==
    IF k1.t = "int" THEN k1.n < k2.n ELSE KeyRank(k1) < KeyRank(k2)

\* sorted(dct.items()) inside json.dumps(sort_keys=True) compares the keys:
\* a str and an int do not compare, and the call raises TypeError.
DumpsRaises(obj) ==
    \E i \in DOMAIN obj, j \in DOMAIN obj : obj[i][1].t # obj[j][1].t

\* Mutant of SortedItems: the items are left in insertion order
\* (sort_keys=False).
ItemsAsInserted(obj) == obj

\* The items of a dict in ascending key order.
RECURSIVE SortedItems(_)
SortedItems(obj) ==
    IF obj = <<>> THEN <<>>
    ELSE LET i == CHOOSE x \in DOMAIN obj :
                     \A y \in DOMAIN obj : y # x => KeyLess(obj[x][1], obj[y][1])
         IN <<obj[i]>> \o SortedItems(SelectSeq(obj, LAMBDA it : it # obj[i]))

\* The JSON text of a key: json.dumps writes an int key as its decimal
\* string.
KeyText(k) == IF k.t = "int" THEN DecStr(k.n) ELSE k.s

\* Mutant of ToJson: json.dumps(default=str)-like writing that turns an int
\* into its decimal string.
ToJsonStringified(v) == IF v.t = "int" THEN JStr(DecStr(v.n)) ELSE v

\* The JSON text of a value: a tuple is written as an array, like a list;
\* every other value of the model as itself.
ToJson(v) == IF v.t = "tuple" THEN JVal("list", v.n, v.s) ELSE v

\* json.dumps(obj, separators=(",", ":"), sort_keys=True): the members of
\* the dict as <<key text, value text>>, in ascending key order.
json_dumps(obj) ==
    LET items == SortedItems(obj)
    IN [i \in 1 .. Len(items) |-> <<KeyText(items[i][1]), ToJson(items[i][2])>>]

\* json.loads of such a text: every key is a str again.
json_loads(plain) ==
    [i \in 1 .. Len(plain) |-> <<JStr(plain[i][1]), plain[i][2]>>]

\* encrypt_to_server / encrypt_for_server / encrypt_to_target: the canonical
\* JSON of obj, encrypted to the key (armoring and base64 are left implicit
\* in the envelope record).
encrypt_to_server(obj, key) == [to |-> key.fp, plain |-> json_dumps(obj)]

\* The value a sealed plaintext gives for a key (Missing if it has none).
PlainField(plain, k) ==
    IF \E i \in 1 .. Len(plain) : plain[i][1] = <<k>>
    THEN plain[CHOOSE i \in 1 .. Len(plain) : plain[i][1] = <<k>>][2]
    ELSE Missing

\* key.unlock(passphrase): raises for a protected private key unless the
\* passphrase is the key's; a public or unprotected key is yielded as is.
UnlockRaises(key, pass) == key.is_protected /\ pass # "right"

\* Mutant of Relock: unlock used without its with block, so that nothing
\* clears the key material again.
RelockSkipped(u) == u

\* Leaving the `with key.unlock(...)` block, normally or by an exception:
\* the key material is cleared again.
Relock(u) == FALSE

\* ------------------------------------------------------ fixed: start-up

\* test_server_connectivity: requests.get(f"{SERVER_BASE}/", timeout=10).
test_server_connectivity_get ==
    /\ variant = "fixed"
    /\ pc = "start"
    /\ requests' = Append(requests, Req("GET", "/", Missing, NoSeal))
    /\ inflight' = TRUE
    /\ pc' = "probe"
    /\ UNCHANGED <<cfg, apart, probed, status_code, key_error, keys, unlocked, hs, exit_code, fault>>

\* Mutant of test_server_connectivity: the probe calls raise_for_status, so
\* an answer with a 4xx or 5xx status counts as unreachable.
test_server_connectivity_checks_status ==
    /\ pc = "probe"
    /\ inflight' = FALSE
    /\ \E raised \in BOOLEAN, status \in Statuses :
          /\ probed' = (IF raised THEN "raised" ELSE "answered")
          /\ IF raised \/ status >= 400
             THEN Fail
             ELSE pc' = "load_server" /\ UNCHANGED exit_code
    /\ UNCHANGED <<cfg, apart, status_code, key_error, keys, unlocked, requests, hs, fault>>

\* The probe returns (any status) or raises (unreachable, timeout).
test_server_connectivity ==
    /\ pc = "probe"
    /\ inflight' = FALSE
    /\ \E raised \in BOOLEAN, status \in Statuses :
          /\ probed' = (IF raised THEN "raised" ELSE "answered")
          /\ IF raised
             THEN Fail
             ELSE pc' = "load_server" /\ UNCHANGED exit_code
    /\ UNCHANGED <<cfg, apart, status_code, key_error, keys, unlocked, requests, hs, fault>>

\* The first candidate, in list order, that is a file and loads (0: none).
FirstLoadable(files) ==
    IF \E i \in DOMAIN files : files[i] = "public"
    THEN CHOOSE i \in DOMAIN files :
            /\ files[i] = "public"
            /\ \A j \in DOMAIN files : j < i => files[j] # "public"
    ELSE 0

\* find_and_load_server_key, and main's return on (None, None).
find_and_load_server_key ==
    /\ pc = "load_server"
    /\ \E files \in [DOMAIN SERVER_PUB_KEY_CANDIDATES -> {"missing", "unloadable", "public"}],
          fp \in ServerFps :
          LET i == FirstLoadable(files)
          IN /\ key_error' = (i = 0)
             /\ IF i = 0
                THEN Fail /\ UNCHANGED server_pub_key
                ELSE /\ server_pub_key' = PubKey(fp, i)
                     /\ pc' = "load_client"
                     /\ UNCHANGED exit_code
    /\ UNCHANGED <<cfg, apart, probed, status_code, client_priv_key, unlocked, net, hs, fault>>

\* load_and_verify_client_key, and main's return on None.
load_and_verify_client_key ==
    /\ pc = "load_client"
    /\ \E kind \in KeyFiles :
          /\ key_error' = (kind \in {"missing", "unloadable", "public"})
          /\ IF kind \in {"missing", "unloadable", "public"}
             THEN Fail /\ UNCHANGED client_priv_key
             ELSE /\ client_priv_key' = KeyOfFile(kind, ClientFp)
                  /\ pc' = "verify_keys"
                  /\ UNCHANGED exit_code
    /\ UNCHANGED <<cfg, apart, probed, status_code, server_pub_key, unlocked, net, hs, fault>>

\* Mutant of verify_different_keys: equal fingerprints are only reported.
verify_different_keys_reports ==
    /\ pc = "verify_keys"
    /\ pc' = "msg1"
    /\ UNCHANGED exit_code
    /\ UNCHANGED <<cfg, apart, probed, status_code, key_error, keys, unlocked, net, hs, fault>>

\* verify_different_keys, and main's return on False.
verify_different_keys ==
    /\ pc = "verify_keys"
    /\ IF server_pub_key.fp = client_priv_key.fp
       THEN Fail
       ELSE pc' = "msg1" /\ UNCHANGED exit_code
    /\ UNCHANGED <<cfg, apart, probed, status_code, key_error, keys, unlocked, net, hs, fault>>

\* ------------------------------------------------------- test: start-up

\* rmap_client_test.py, module body: both key files must exist
\* (sys.exit(2)), both must load, and the client key must not be public.
load_keys_test ==
    /\ variant = "test"
    /\ pc = "start"
    /\ \E skind \in {"missing", "unloadable", "public"}, fp \in ServerFps,
          ckind \in KeyFiles :
          /\ key_error' = (skind # "public" \/ ckind \in {"missing", "unloadable", "public"})
          /\ IF skind = "missing" \/ ckind = "missing"
             THEN /\ pc' = "failed"
                  /\ exit_code' = Some(2)
                  /\ UNCHANGED keys
             ELSE IF skind = "unloadable" \/ ckind \in {"unloadable", "public"}
             THEN Fail /\ UNCHANGED keys
             ELSE /\ server_pub_key' = PubKey(fp, 1)
                  /\ client_priv_key' = KeyOfFile(ckind, ClientFp)
                  /\ pc' = "msg1"
                  /\ UNCHANGED exit_code
    /\ UNCHANGED <<cfg, apart, probed, status_code, unlocked, net, hs, fault>>

\* ------------------------------------------------ pdf, group: start-up

\* main of rmap_client_pdf_getting.py and of test_group_rmap.py: load both
\* keys; any exception ends the run.  A public key in the client key file
\* loads without complaint.
load_keys ==
    /\ variant \in UrllibVariants
    /\ pc = "start"
    /\ \E skind \in {"missing", "unloadable", "public"}, fp \in ServerFps,
          ckind \in KeyFiles :
          /\ key_error' = (skind # "public" \/ ckind \in {"missing", "unloadable", "public"})
          /\ IF skind # "public" \/ ckind \in {"missing", "unloadable"}
             THEN Fail /\ UNCHANGED keys
             ELSE /\ server_pub_key' = PubKey(fp, 1)
                  /\ client_priv_key' = KeyOfFile(ckind, ClientFp)
                  /\ pc' = "unlock_test"
                  /\ UNCHANGED exit_code
    /\ UNCHANGED <<cfg, apart, probed, status_code, unlocked, net, hs, fault>>

\* "Test key unlocking": with client_priv.unlock(PASSPHRASE) is entered.
unlock_test_enter ==
    /\ pc = "unlock_test"
    /\ IF UnlockRaises(client_priv_key, passphrase)
       THEN Fail /\ UNCHANGED unlocked
       ELSE /\ unlocked' = client_priv_key.is_protected
            /\ pc' = "unlock_test_in"
            /\ UNCHANGED exit_code
    /\ UNCHANGED <<cfg, apart, probed, status_code, key_error, keys, net, hs, fault>>

\* The unlock test's with block is left.
unlock_test_exit ==
    /\ pc = "unlock_test_in"
    /\ unlocked' = Relock(unlocked)
    /\ pc' = "msg1"
    /\ UNCHANGED <<cfg, apart, probed, status_code, key_error, keys, net, hs, exit_code, fault>>

\* ---------------------------------------------------- the peer's answers

\* The plaintext of a first response: not JSON, JSON that is no object, or
\* an object whose nonceClient and nonceServer are each absent or a value.
Docs ==
    {[shape |-> "garbage", nonceClient |-> Missing, nonceServer |-> Missing],
     [shape |-> "list", nonceClient |-> Missing, nonceServer |-> Missing]}
        \cup {[shape |-> "dict", nonceClient |-> a, nonceServer |-> b] :
                a \in FieldValues \cup {Missing}, b \in FieldValues \cup {Missing}}

\* The "payload" member of a first response: no string, no base64, no PGP
\* message, or a PGP message encrypted to the client or to another key.
Payloads ==
    {[kind |-> k, to |-> "", doc |-> NoDoc] : k \in {"notstr", "badb64", "notpgp"}}
        \cup {[kind |-> "pgp", to |-> "X", doc |-> NoDoc]}
        \cup {[kind |-> "pgp", to |-> ClientFp, doc |-> d] : d \in Docs}

Bodies1 ==
    {[shape |-> sh, has_payload |-> FALSE, payload |-> NoPayload] :
        sh \in {"notjson", "list", "dict"}}
        \cup {[shape |-> "dict", has_payload |-> TRUE, payload |-> p] : p \in Payloads}

\* A response: the call raised (unreachable, timeout), or a status and a body.
Responses1 ==
    {[raised |-> TRUE, status |-> 0,
      body |-> [shape |-> "notjson", has_payload |-> FALSE, payload |-> NoPayload]]}
        \cup {[raised |-> FALSE, status |-> st, body |-> b] :
                st \in Statuses, b \in Bodies1}

ResultValues == {JText("abc123"), JNull, JInt(7)}

Bodies2 ==
    {[shape |-> sh, has_result |-> FALSE, result |-> Missing] :
        sh \in {"notjson", "list", "dict"}}
        \cup {[shape |-> "dict", has_result |-> TRUE, result |-> t] : t \in ResultValues}

Responses2 ==
    {[raised |-> TRUE, status |-> 0,
      body |-> [shape |-> "notjson", has_result |-> FALSE, result |-> Missing]]}
        \cup {[raised |-> FALSE, status |-> st, body |-> b] :
                st \in Statuses, b \in Bodies2}

Responses3 ==
    {[raised |-> TRUE, status |-> 0, ctype |-> "None", content |-> ""]}
        \cup {[raised |-> FALSE, status |-> st, ctype |-> ct, content |-> c] :
                st \in Statuses, ct \in ContentTypes, c \in Contents}

\* A success status of HTTP.
Is2xx(status) == 200 <= status /\ status < 300

\* A value denotes the number n: the integer itself, a float of that exact
\* value, or its decimal text.
Denotes(v, n) ==
    \/ v.t = "int" /\ v.n = n
    \/ v.t = "float" /\ v.n = 2 * n
    \/ v.t = "str" /\ PyIntOfStr(v.s) = Ok(n)

\* History: what fails in a round trip, as the response shows it.
Fault1(r) ==
    IF r.raised THEN "transport"
    ELSE IF ~Is2xx(r.status) THEN "status"
    ELSE IF r.body.shape # "dict" \/ ~r.body.has_payload THEN "missing_field"
    ELSE "none"

\* History: a malformed or undecryptable envelope.
FaultEnvelope(p, key) ==
    IF p.kind # "pgp" \/ p.to # key.fp \/ p.doc.shape = "garbage"
    THEN "envelope" ELSE "none"

\* History: a missing field or a nonce mismatch in the decrypted response.
FaultVerify(obj, n) ==
    IF obj.shape # "dict" \/ obj.nonceClient = Missing \/ obj.nonceServer = Missing
    THEN "missing_field"
    ELSE IF ~Denotes(obj.nonceClient, n) THEN "nonce_mismatch"
    ELSE "none"

Fault2(r) ==
    IF r.raised THEN "transport"
    ELSE IF ~Is2xx(r.status) THEN "status"
    ELSE IF r.body.shape # "dict" \/ ~r.body.has_result THEN "missing_field"
    ELSE "none"

Fault3(r) ==
    IF r.raised THEN "transport"
    ELSE IF ~Is2xx(r.status) THEN "status"
    ELSE "none"

\* ---------------------------------------------------------- the handshake

\* Whether a variant goes on after a handshake POST that returned status:
\* fixed tests status_code != 200, test calls raise_for_status (which raises
\* for 4xx and 5xx), urlopen raises HTTPError for every status outside 2xx.
HandshakeStatusOk(v, status) ==
    CASE v = "fixed" -> status = 200
      [] v = "test" -> ~(400 <= status /\ status < 600)
      [] OTHER -> Is2xx(status)

\* Mutant of HasMember: the member is read with a default (body.get(...))
\* and its absence goes unnoticed.
HasMemberDefaulted(shape, has) == shape = "dict"

\* The parsed body has the member: `"payload" not in resp1` and
\* body1["payload"] (KeyError, or TypeError for a list); a body that is not
\* JSON raises in r1.json() and json.loads.
HasMember(shape, has) == shape = "dict" /\ has

\* The mapping sealed into message 1.
Message1(n) ==
    << <<JText("identity"), JText(IDENTITY)>>, <<JText("nonceClient"), JInt(n)>> >>

\* "Message 1": the nonce is generated, the message sealed and posted.
send_message1 ==
    /\ pc = "msg1"
    /\ \E n \in Nonces :
          /\ nonce_client' = Some(n)
          /\ requests' = Append(requests,
                Req("POST", "/api/rmap-initiate", Missing,
                    encrypt_to_server(Message1(n), server_pub_key)))
    /\ inflight' = TRUE
    /\ pc' = "wait1"
    /\ UNCHANGED <<cfg, apart, probed, status_code, key_error, keys, unlocked, payload_b64, dec, obj1, nonce_server,
                   resp2, link_token, pdf_resp, file, compared, exit_code, fault>>

\* The first response arrives (or the POST raises); status and body are
\* checked and the payload taken.
recv_response1 ==
    /\ pc = "wait1"
    /\ inflight' = FALSE
    /\ \E r \in Responses1 :
          /\ status_code' = (IF r.raised THEN status_code ELSE r.status)
          /\ fault' = NoteFault(Fault1(r))
          /\ IF \/ r.raised
                \/ ~HandshakeStatusOk(variant, r.status)
                \/ ~HasMember(r.body.shape, r.body.has_payload)
             THEN Fail /\ UNCHANGED payload_b64
             ELSE /\ payload_b64' = r.body.payload
                  /\ pc' = "decrypt"
                  /\ UNCHANGED exit_code
    /\ UNCHANGED <<cfg, apart, probed, key_error, keys, unlocked, requests, nonce_client, dec, obj1,
                   nonce_server, resp2, link_token, pdf_resp, file, compared>>

\* decrypt_from_server / decrypt_for_client / decrypt_from_target, up to the
\* entry of the with block: base64 and PGPMessage.from_blob raise on a
\* malformed payload; fixed and test exit when the key is protected and the
\* passphrase is None, and unlock only a protected key; pdf and group call
\* unlock always.
decrypt_begin ==
    /\ pc = "decrypt"
    /\ fault' = NoteFault(FaultEnvelope(payload_b64, client_priv_key))
    /\ IF payload_b64.kind # "pgp"
       THEN Fail /\ UNCHANGED unlocked
       ELSE IF /\ variant \in RequestsVariants
               /\ client_priv_key.is_protected
               /\ passphrase = "None"
       THEN /\ pc' = "failed"
            /\ exit_code' = Some(1)
            /\ UNCHANGED unlocked
       ELSE IF UnlockRaises(client_priv_key, passphrase)
       THEN Fail /\ UNCHANGED unlocked
       ELSE /\ unlocked' = client_priv_key.is_protected
            /\ pc' = "dec_inside"
            /\ UNCHANGED exit_code
    /\ UNCHANGED <<cfg, apart, probed, status_code, key_error, keys, net, hs>>

\* key.decrypt(pgp_msg) raises for a public key and for a message encrypted
\* to another key.
DecryptRaises(p, key) == key.is_public \/ p.to # key.fp

\* json.loads raises unless the text is JSON.
JsonLoadsRaises(doc) == doc.shape = "garbage"

\* Inside the with block: the decrypt and, in pdf and group, json.loads.
decrypt_inside ==
    /\ pc = "dec_inside"
    /\ dec' = IF \/ DecryptRaises(payload_b64, client_priv_key)
                 \/ (variant \in UrllibVariants /\ JsonLoadsRaises(payload_b64.doc))
              THEN "raise" ELSE "ok"
    /\ pc' = "dec_exit"
    /\ UNCHANGED <<cfg, apart, probed, status_code, key_error, keys, unlocked, net, nonce_client, payload_b64, obj1,
                   nonce_server, resp2, link_token, pdf_resp, file, compared,
                   exit_code, fault>>

\* The with block is left (the key relocked), by the exception or normally;
\* fixed and test then parse the plaintext.
decrypt_exit ==
    /\ pc = "dec_exit"
    /\ unlocked' = Relock(unlocked)
    /\ IF dec = "raise" \/ JsonLoadsRaises(payload_b64.doc)
       THEN Fail /\ UNCHANGED obj1
       ELSE /\ obj1' = payload_b64.doc
            /\ pc' = "verify"
            /\ UNCHANGED exit_code
    /\ UNCHANGED <<cfg, apart, probed, status_code, key_error, keys, net, nonce_client, payload_b64, dec, nonce_server,
                   resp2, link_token, pdf_resp, file, compared, fault>>

\* The nonce check passes.  fixed and test: obj1.get("nonceClient") !=
\* nonce_client (get raises on a list).  pdf and group:
\* int(obj["nonceClient"]) != nonce_client (the subscript and int raise).
NonceCheckPasses(v, obj, n) ==
    IF v \in RequestsVariants
    THEN obj.shape = "dict" /\ PyEqInt(obj.nonceClient, n)
    ELSE /\ obj.shape = "dict"
         /\ PyInt(obj.nonceClient).ok
         /\ PyInt(obj.nonceClient).n = n

\* Mutant of NonceServerOf: the adopted value is validated as an integer of
\* [0, 2^64).
NonceServerOfRangeChecked(v, obj) ==
    [ok |-> PyInt(obj.nonceServer).ok /\ PyInt(obj.nonceServer).n \in Nonces,
     val |-> IF v \in RequestsVariants THEN obj.nonceServer
             ELSE JInt(PyInt(obj.nonceServer).n)]

\* nonce_server: obj1["nonceServer"] in fixed and test (KeyError when it is
\* absent), int(obj["nonceServer"]) in pdf and group.
NonceServerOf(v, obj) ==
    IF v \in RequestsVariants
    THEN [ok |-> obj.nonceServer # Missing, val |-> obj.nonceServer]
    ELSE [ok |-> PyInt(obj.nonceServer).ok, val |-> JInt(PyInt(obj.nonceServer).n)]

\* Mutant of Comparand: the nonce is drawn again for the comparison.
ComparandRegenerated == Some((nonce_client.n + 1) % TwoToW)

\* The value the echoed nonceClient is compared against.
Comparand == nonce_client

\* Mutant of verify_nonce: a nonceClient mismatch is only reported and the
\* script goes on to message 2.
verify_nonce_warns ==
    /\ pc = "verify"
    /\ compared' = Comparand
    /\ fault' = NoteFault(FaultVerify(obj1, nonce_client.n))
    /\ IF obj1.shape = "dict" /\ obj1.nonceServer # Missing
       THEN /\ nonce_server' = obj1.nonceServer
            /\ pc' = "msg2"
            /\ UNCHANGED exit_code
       ELSE Fail /\ UNCHANGED nonce_server
    /\ UNCHANGED <<cfg, apart, probed, status_code, key_error, keys, unlocked, net, nonce_client, payload_b64, dec, obj1,
                   resp2, link_token, pdf_resp, file>>

\* The echoed nonceClient is checked and nonceServer adopted.
verify_nonce ==
    /\ pc = "verify"
    /\ compared' = Comparand
    /\ fault' = NoteFault(FaultVerify(obj1, nonce_client.n))
    /\ IF /\ NonceCheckPasses(variant, obj1, Comparand.n)
          /\ NonceServerOf(variant, obj1).ok
       THEN /\ nonce_server' = NonceServerOf(variant, obj1).val
            /\ pc' = "msg2"
            /\ UNCHANGED exit_code
       ELSE Fail /\ UNCHANGED nonce_server
    /\ UNCHANGED <<cfg, apart, probed, status_code, key_error, keys, unlocked, net, nonce_client, payload_b64, dec, obj1,
                   resp2, link_token, pdf_resp, file>>

\* Mutant of Message2: the client's own nonce is sent back.
Message2OfClientNonce(ns) == << <<JText("nonceServer"), JInt(nonce_client.n)>> >>

\* The mapping sealed into message 2.
Message2(ns) == << <<JText("nonceServer"), ns>> >>

\* "Message 2": {nonceServer} is sealed and posted.
send_message2 ==
    /\ pc = "msg2"
    /\ requests' = Append(requests,
          Req("POST", "/api/rmap-get-link", Missing,
              encrypt_to_server(Message2(nonce_server), server_pub_key)))
    /\ inflight' = TRUE
    /\ pc' = "wait2"
    /\ UNCHANGED <<cfg, apart, probed, status_code, key_error, keys, unlocked, hs, exit_code, fault>>

\* Mutant of recv_response2: a failed second round trip is only reported
\* and the script goes on to the download.
recv_response2_reports ==
    /\ pc = "wait2"
    /\ inflight' = FALSE
    /\ \E r \in Responses2 :
          /\ status_code' = (IF r.raised THEN status_code ELSE r.status)
          /\ fault' = NoteFault(Fault2(r))
          /\ resp2' = (IF r.raised THEN resp2 ELSE r.body)
          /\ link_token' = (IF r.raised THEN link_token ELSE r.body.result)
          /\ pc' = "get"
          /\ UNCHANGED exit_code
    /\ UNCHANGED <<cfg, apart, probed, key_error, keys, unlocked, requests, nonce_client,
                   payload_b64, dec, obj1, nonce_server, pdf_resp, file, compared>>

\* Mutant of recv_response2: a POST that raised is sent again.
recv_response2_retries ==
    /\ pc = "wait2"
    /\ inflight' = FALSE
    /\ \E r \in Responses2 :
          /\ status_code' = (IF r.raised THEN status_code ELSE r.status)
          /\ fault' = NoteFault(Fault2(r))
          /\ IF r.raised
             THEN /\ pc' = "msg2"
                  /\ UNCHANGED <<resp2, link_token, exit_code>>
             ELSE IF \/ ~HandshakeStatusOk(variant, r.status)
                     \/ ~HasMember(r.body.shape, r.body.has_result)
             THEN /\ Fail
                  /\ resp2' = r.body
                  /\ UNCHANGED link_token
             ELSE /\ resp2' = r.body
                  /\ link_token' = r.body.result
                  /\ pc' = "get"
                  /\ UNCHANGED exit_code
    /\ UNCHANGED <<cfg, apart, probed, key_error, keys, unlocked, requests, nonce_client, payload_b64, dec,
                   obj1, nonce_server, pdf_resp, file, compared>>

\* The second response arrives (or the POST raises); the link token is
\* taken from its "result".
recv_response2 ==
    /\ pc = "wait2"
    /\ inflight' = FALSE
    /\ \E r \in Responses2 :
          /\ status_code' = (IF r.raised THEN status_code ELSE r.status)
          /\ fault' = NoteFault(Fault2(r))
          /\ IF \/ r.raised
                \/ ~HandshakeStatusOk(variant, r.status)
                \/ ~HasMember(r.body.shape, r.body.has_result)
             THEN /\ Fail
                  /\ resp2' = IF r.raised THEN resp2 ELSE r.body
                  /\ UNCHANGED link_token
             ELSE /\ resp2' = r.body
                  /\ link_token' = r.body.result
                  /\ pc' = "get"
                  /\ UNCHANGED exit_code
    /\ UNCHANGED <<cfg, apart, probed, key_error, keys, unlocked, requests, nonce_client, payload_b64, dec,
                   obj1, nonce_server, pdf_resp, file, compared>>

\* "Download watermarked PDF": GET /api/get-version/{link_token}.
download_get ==
    /\ pc = "get"
    /\ requests' = Append(requests, Req("GET", "/api/get-version", link_token, NoSeal))
    /\ inflight' = TRUE
    /\ pc' = "wait3"
    /\ UNCHANGED <<cfg, apart, probed, status_code, key_error, keys, unlocked, hs, exit_code, fault>>

\* Whether a variant writes the artifact: fixed and test require status 200
\* and the exact Content-Type application/pdf; pdf and group write whatever
\* urlopen returns, which raises only outside 2xx.
ArtifactAccepted(v, r) ==
    IF v \in RequestsVariants
    THEN r.status = 200 /\ r.ctype = "application/pdf"
    ELSE Is2xx(r.status)

\* The output file name of a variant.
FileName(v) ==
    CASE v \in RequestsVariants -> "watermarked_Group_04.pdf"
      [] v = "pdf" -> "Group_04_watermarked.pdf"
      [] OTHER -> "Group_04_from_Group04.pdf"

\* The artifact response arrives (or the GET raises) and is written to the
\* output file if accepted.
recv_artifact ==
    /\ pc = "wait3"
    /\ inflight' = FALSE
    /\ \E r \in Responses3 :
          /\ status_code' = (IF r.raised THEN status_code ELSE r.status)
          /\ fault' = NoteFault(Fault3(r))
          /\ IF r.raised
             THEN Fail /\ UNCHANGED <<pdf_resp, file>>
             ELSE /\ pdf_resp' = [status |-> r.status, ctype |-> r.ctype,
                                  content |-> r.content]
                  /\ IF ArtifactAccepted(variant, r)
                     THEN /\ file' = [written |-> TRUE, name |-> FileName(variant),
                                      content |-> r.content]
                          /\ pc' = "done"
                          /\ exit_code' = Some(0)
                     ELSE Fail /\ UNCHANGED file
    /\ UNCHANGED <<cfg, apart, probed, key_error, keys, unlocked, requests, nonce_client, payload_b64, dec,
                   obj1, nonce_server, resp2, link_token, compared>>

Terminal == {"done", "failed"}

Next ==
    \/ test_server_connectivity_get
    \/ test_server_connectivity
    \/ find_and_load_server_key
    \/ load_and_verify_client_key
    \/ verify_different_keys
    \/ load_keys_test
    \/ load_keys
    \/ unlock_test_enter
    \/ unlock_test_exit
    \/ send_message1
    \/ recv_response1
    \/ decrypt_begin
    \/ decrypt_inside
    \/ decrypt_exit
    \/ verify_nonce
    \/ send_message2
    \/ recv_response2
    \/ download_get
    \/ recv_artifact

Spec == Init /\ [][Next]_vars

\* ------------------------------------------- the envelope codec by itself

\* The most items a mapping of the codec runs has.
MaxItems == 2

CodecKeys == {JText("a"), JText("b"), JInt(2), JInt(10)}

\* Values of a mapping: a number, a string, a nested list, a nested tuple.
CodecValues == {JInt(1), JText("v"), JList, PyTuple}

\* The dicts of at most MaxItems items (the keys of a dict are distinct).
Mappings ==
    UNION {{m \in [1 .. k -> CodecKeys \X CodecValues] :
               \A i \in 1 .. k, j \in 1 .. k : i # j => m[i][1] # m[j][1]} :
           k \in 0 .. MaxItems}

\* The same items, inserted in any order.
Reorderings(m) ==
    {o \in [DOMAIN m -> {m[i] : i \in DOMAIN m}] :
        {o[i] : i \in DOMAIN o} = {m[i] : i \in DOMAIN m}}

\* decrypt_from_server / decrypt_for_client / decrypt_from_target as one
\* call on an envelope the codec sealed.
decrypt_from_server(env, key) ==
    IF \/ (variant \in RequestsVariants /\ key.is_protected /\ passphrase = "None")
       \/ UnlockRaises(key, passphrase)
       \/ DecryptRaises(env, key)
    THEN [ok |-> FALSE, obj |-> <<>>]
    ELSE [ok |-> TRUE, obj |-> json_loads(env.plain)]

\* A mapping, a second insertion order of it, a public key and a private
\* key are given; the passphrase is the key's.
InitCodec ==
    /\ variant \in Variants
    /\ passphrase = "right"
    /\ Start
    /\ dup = NoDup
    /\ lookup = NoLookup
    /\ \E m \in Mappings, protected \in BOOLEAN, fp \in {ClientFp, "S"} :
          \E o \in Reorderings(m) :
             codec = [NoCodec EXCEPT !.pc = "new", !.m = m, !.other = o,
                                     !.pub = PubKey(fp, 1),
                                     !.priv = PrivKey(ClientFp, protected)]

\* encrypt_to_server is applied to the mapping in both insertion orders;
\* json.dumps may raise.
codec_seal ==
    /\ codec.pc = "new"
    /\ codec' = IF DumpsRaises(codec.m)
                THEN [codec EXCEPT !.pc = "seal_raised"]
                ELSE [codec EXCEPT !.pc = "sealed",
                                   !.sealed = encrypt_to_server(codec.m, codec.pub),
                                   !.sealed_other = encrypt_to_server(codec.other, codec.pub)]
    /\ UNCHANGED <<run, dup, lookup>>

\* decrypt_from_server is applied to the sealed envelope.
codec_open ==
    /\ codec.pc = "sealed"
    /\ codec' = [codec EXCEPT !.pc = "opened",
                              !.opened = decrypt_from_server(codec.sealed, codec.priv)]
    /\ UNCHANGED <<run, dup, lookup>>

NextCodec == codec_seal \/ codec_open

SpecCodec == InitCodec /\ [][NextCodec]_vars

\* --------------------------------------------- the four scripts side by side

\* The keys every script has loaded when the scripts are run side by side:
\* the peer's public key and an unprotected client private key.
DupServerKey == PubKey("S", 1)
DupClientKey == PrivKey(ClientFp, FALSE)

\* A script takes the first response: status, payload member, envelope,
\* plaintext, nonce check and nonceServer, as in recv_response1,
\* decrypt_begin, decrypt_inside, decrypt_exit and verify_nonce.
Accepts1(v, n, r) ==
    /\ ~r.raised
    /\ HandshakeStatusOk(v, r.status)
    /\ HasMember(r.body.shape, r.body.has_payload)
    /\ r.body.payload.kind = "pgp"
    /\ ~DecryptRaises(r.body.payload, DupClientKey)
    /\ ~JsonLoadsRaises(r.body.payload.doc)
    /\ NonceCheckPasses(v, r.body.payload.doc, n)
    /\ NonceServerOf(v, r.body.payload.doc).ok

\* A script takes the second response, as in recv_response2.
Accepts2(v, r) ==
    /\ ~r.raised
    /\ HandshakeStatusOk(v, r.status)
    /\ HasMember(r.body.shape, r.body.has_result)

\* A script writes the artifact, as in recv_artifact.
Accepts3(v, r) == ~r.raised /\ ArtifactAccepted(v, r)

\* The scripts are started with their keys loaded.
InitDup ==
    /\ variant = "fixed"
    /\ passphrase = "right"
    /\ Start
    /\ codec = NoCodec
    /\ lookup = NoLookup
    /\ dup = [step |-> "start", nonce |-> 0,
              alive |-> [v \in Variants |-> TRUE],
              reqs |-> [v \in Variants |-> <<>>],
              carry |-> [v \in Variants |-> Missing],
              written |-> [v \in Variants |-> FALSE]]

\* Every script draws the same nonce and posts message 1; the fixed variant
\* has probed the peer before.
dup_start ==
    /\ dup.step = "start"
    /\ \E n \in Nonces :
          dup' = [dup EXCEPT
             !.step = "wait1",
             !.nonce = n,
             !.reqs = [v \in Variants |->
                (IF v = "fixed" THEN <<Req("GET", "/", Missing, NoSeal)>> ELSE <<>>)
                   \o <<Req("POST", "/api/rmap-initiate", Missing,
                            encrypt_to_server(Message1(n), DupServerKey))>>]]
    /\ UNCHANGED <<run, codec, lookup>>

\* The peer gives every script the same first response; the scripts that
\* take it post message 2.
dup_answer1 ==
    /\ dup.step = "wait1"
    /\ \E r \in Responses1 :
          LET ok == [v \in Variants |-> dup.alive[v] /\ Accepts1(v, dup.nonce, r)]
              ns == [v \in Variants |->
                        IF ok[v] THEN NonceServerOf(v, r.body.payload.doc).val
                        ELSE Missing]
          IN dup' = [dup EXCEPT
                !.step = "wait2",
                !.alive = ok,
                !.carry = ns,
                !.reqs = [v \in Variants |->
                   IF ok[v]
                   THEN Append(dup.reqs[v],
                           Req("POST", "/api/rmap-get-link", Missing,
                               encrypt_to_server(Message2(ns[v]), DupServerKey)))
                   ELSE dup.reqs[v]]]
    /\ UNCHANGED <<run, codec, lookup>>

\* The peer gives every script the same second response; the scripts that
\* take it request the artifact.
dup_answer2 ==
    /\ dup.step = "wait2"
    /\ \E r \in Responses2 :
          LET ok == [v \in Variants |-> dup.alive[v] /\ Accepts2(v, r)]
          IN dup' = [dup EXCEPT
                !.step = "wait3",
                !.alive = ok,
                !.carry = [v \in Variants |-> IF ok[v] THEN r.body.result ELSE Missing],
                !.reqs = [v \in Variants |->
                   IF ok[v]
                   THEN Append(dup.reqs[v],
                           Req("GET", "/api/get-version", r.body.result, NoSeal))
                   ELSE dup.reqs[v]]]
    /\ UNCHANGED <<run, codec, lookup>>

\* The peer gives every script the same artifact response; the scripts that
\* take it write their output file and succeed.
dup_answer3 ==
    /\ dup.step = "wait3"
    /\ \E r \in Responses3 :
          LET ok == [v \in Variants |-> dup.alive[v] /\ Accepts3(v, r)]
          IN dup' = [dup EXCEPT !.step = "end", !.alive = ok, !.written = ok]
    /\ UNCHANGED <<run, codec, lookup>>

NextDup == dup_start \/ dup_answer1 \/ dup_answer2 \/ dup_answer3

SpecDup == InitDup /\ [][NextDup]_vars

\* ------------------------------------- the server key lookup by itself

\* What a candidate path may be on disk: no file, a file that does not
\* load, a file that loads.
CandidateFiles == {"missing", "unloadable", "public"}

\* The candidate files are given; find_and_load_server_key is entered.
InitLookup ==
    /\ variant = "fixed"
    /\ passphrase = "right"
    /\ Start
    /\ codec = NoCodec
    /\ dup = NoDup
    /\ \E files \in [DOMAIN SERVER_PUB_KEY_CANDIDATES -> CandidateFiles],
          fp \in ServerFps :
          lookup = [NoLookup EXCEPT !.pc = "loop", !.files = files, !.fp = fp, !.i = 1]

\* Mutant of lookup_candidate: a candidate that fails to load ends the
\* search.
lookup_candidate_gives_up ==
    /\ lookup.pc = "loop"
    /\ lookup.i <= Len(SERVER_PUB_KEY_CANDIDATES)
    /\ lookup' =
          CASE lookup.files[lookup.i] = "missing" ->
                  [lookup EXCEPT !.i = lookup.i + 1]
            [] lookup.files[lookup.i] = "unloadable" ->
                  [lookup EXCEPT !.pc = "returned", !.i = 0]
            [] OTHER ->
                  [lookup EXCEPT !.pc = "returned",
                                 !.key = PubKey(lookup.fp, lookup.i)]
    /\ UNCHANGED <<run, codec, dup>>

\* One turn of the for loop: the candidate is skipped when it is no file
\* (is_file) or when PGPKey.from_file raises (continue), and returned with
\* its path when it loads.
lookup_candidate ==
    /\ lookup.pc = "loop"
    /\ lookup.i <= Len(SERVER_PUB_KEY_CANDIDATES)
    /\ lookup' =
          IF lookup.files[lookup.i] \in {"missing", "unloadable"}
          THEN [lookup EXCEPT !.i = lookup.i + 1]
          ELSE [lookup EXCEPT !.pc = "returned",
                              !.key = PubKey(lookup.fp, lookup.i)]
    /\ UNCHANGED <<run, codec, dup>>

\* The loop is exhausted: return None, None.
lookup_none ==
    /\ lookup.pc = "loop"
    /\ lookup.i > Len(SERVER_PUB_KEY_CANDIDATES)
    /\ lookup' = [lookup EXCEPT !.pc = "returned", !.i = 0]
    /\ UNCHANGED <<run, codec, dup>>

NextLookup == lookup_candidate \/ lookup_none

SpecLookup == InitLookup /\ [][NextLookup]_vars

\* ================================================================ claims

InitiateSent == Sent("/api/rmap-initiate")
GetLinkSent == Sent("/api/rmap-get-link")
GetVersionSent == Sent("/api/get-version")

\* The request that carried message 1.
Msg1Request == requests[CHOOSE i \in 1 .. Len(requests) :
                            requests[i].path = "/api/rmap-initiate"]

\* The first response has been decrypted to a mapping.
Decrypted1 == obj1.shape = "dict"

\* C1 (as claimed): whenever the decrypted nonceClient of the first response
\* differs from the generated nonceClient, the run fails and neither message
\* 2 nor the artifact request is sent.
C1_NonceAgreement ==
    (/\ Decrypted1
     /\ obj1.nonceClient # Missing
     /\ ~Denotes(obj1.nonceClient, nonce_client.n))
        => /\ ~GetLinkSent
           /\ ~GetVersionSent
           /\ (pc \in Terminal => pc = "failed")

\* C2 (as claimed): the output file is written only if the artifact response
\* has a success status and the Content-Type application/pdf exactly.
C2_ArtifactOnlyIfPdf ==
    file.written => /\ Is2xx(pdf_resp.status)
                    /\ pdf_resp.ctype = "application/pdf"

\* C3 (as claimed): once a step has failed (transport error, non-success
\* status, missing field, malformed or undecryptable envelope, nonce
\* mismatch) no later request is sent, no file is written and the run ends
\* in failure.
C3_FailClosed ==
    fault.kind # "none"
        => /\ Len(requests) = fault.reqs
           /\ ~file.written
           /\ (pc \in Terminal => pc = "failed")

\* C4 (as claimed): with a passphrase-protected client key and no passphrase
\* the run fails before any network call, in particular before
\* POST /api/rmap-initiate.
C4_UnlockFailsBeforeNetwork ==
    (client_priv_key.is_protected /\ passphrase = "None") => ~InitiateSent

\* C5: a second response without a `result` member fails the run: no link
\* token is produced and no GET /api/get-version is issued.
C5_NoResultNoToken ==
    (GetLinkSent /\ resp2.shape # "none" /\ ~(resp2.shape = "dict" /\ resp2.has_result))
        => /\ link_token = Missing
           /\ ~GetVersionSent
           /\ pc = "failed"

\* C5's case: the peer answered message 2 with an object that has no result.
C5_Witness ==
    /\ GetLinkSent
    /\ resp2.shape = "dict"
    /\ ~resp2.has_result
    /\ pc = "failed"

\* The handshake's requests, the connectivity probe left out.
HandshakePaths == SelectSeq([i \in 1 .. Len(requests) |-> requests[i].path],
                            LAMBDA p : p # "/")

StepOrder == <<"/api/rmap-initiate", "/api/rmap-get-link", "/api/get-version">>

\* The position of the script, as a step number that only grows.
Rank(p) ==
    CASE p = "start" -> 0
      [] p \in {"probe", "load_server", "load_client", "verify_keys",
                "unlock_test", "unlock_test_in"} -> 1
      [] p = "msg1" -> 2
      [] p = "wait1" -> 3
      [] p \in {"decrypt", "dec_inside", "dec_exit"} -> 4
      [] p = "verify" -> 5
      [] p = "msg2" -> 6
      [] p = "wait2" -> 7
      [] p = "get" -> 8
      [] p = "wait3" -> 9
      [] OTHER -> 10

C6_Ordered ==
    /\ Len(HandshakePaths) <= Len(StepOrder)
    /\ HandshakePaths = SubSeq(StepOrder, 1, Len(HandshakePaths))
    /\ GetLinkSent => /\ payload_b64.kind = "pgp"
                      /\ Decrypted1
                      /\ compared.set
                      /\ NonceCheckPasses(variant, obj1, compared.n)
    /\ GetVersionSent => /\ resp2.shape = "dict"
                         /\ resp2.has_result
                         /\ link_token = resp2.result
    /\ inflight => pc \in {"probe", "wait1", "wait2", "wait3"}

WrongType(v) ==
    \/ v.t \in {"null", "list"}
    \/ v.t = "str" /\ ~PyIntOfStr(v.s).ok

\* C7 (as claimed): a first response whose nonceClient matches but whose
\* nonceServer is missing or of the wrong type never leads to message 2.
C7_WrongTypeIsFailure ==
    (/\ Decrypted1
     /\ Denotes(obj1.nonceClient, nonce_client.n)
     /\ (obj1.nonceServer = Missing \/ WrongType(obj1.nonceServer)))
        => ~GetLinkSent

\* A value that is exactly an integer of [0, 2^64), in some representation.
Representable(v) == \E n \in Nonces : Denotes(v, n)

\* C8 (as claimed): a received nonce that is not exactly an integer of
\* [0, 2^64) is rejected: the run never goes on to message 2 with it.
C8_NoncesAreU64 ==
    GetLinkSent => /\ Representable(obj1.nonceClient)
                   /\ Representable(obj1.nonceServer)

InDecrypt == pc \in {"dec_inside", "dec_exit"}

\* C9 (as claimed): the key is unlocked only inside a decrypt call.
C9_UnlockedOnlyInDecrypt == unlocked => InDecrypt

\* C9 (amended): the key is unlocked only inside a decrypt call or inside
\* the start-up unlock test of the pdf and group variants, which is over
\* before any request is sent; it is locked whenever a request is in flight
\* and wherever the script stands outside those two blocks, so also after
\* the decrypt call has exited, normally or by an error.
C9_UnlockScoped ==
    /\ unlocked => /\ client_priv_key.is_protected
                   /\ (InDecrypt \/ pc = "unlock_test_in")
    /\ (unlocked /\ pc = "unlock_test_in")
          => variant \in UrllibVariants /\ requests = <<>>
    /\ inflight => ~unlocked

\* C9's case: the decrypt of a protected key raised, and the key is locked.
C9_Witness ==
    /\ client_priv_key.is_protected
    /\ passphrase = "right"
    /\ dec = "raise"
    /\ pc = "failed"
    /\ ~unlocked

\* C10: the nonceClient sealed into message 1 is the generated one in every
\* state from the send on, and the value the echoed nonceClient is compared
\* against is that same value.
C10_NonceOnce ==
    /\ nonce_client.set <=> InitiateSent
    /\ InitiateSent
          => PlainField(Msg1Request.payload.plain, "nonceClient") = JInt(nonce_client.n)
    /\ compared.set
          => /\ InitiateSent
             /\ JInt(compared.n) = PlainField(Msg1Request.payload.plain, "nonceClient")

\* C10's case: the echoed nonceClient has been compared and accepted.
C10_Witness == compared.set /\ pc = "msg2"

\* How often a path has been requested in this run.
TimesRequested(path) ==
    Cardinality({i \in 1 .. Len(requests) : requests[i].path = path})

\* C11: within one run each of POST /api/rmap-initiate,
\* POST /api/rmap-get-link and GET /api/get-version is requested at most
\* once, whatever the peer answers; nothing is sent again after a failure.
C11_NoRetry ==
    /\ \A p \in {"/api/rmap-initiate", "/api/rmap-get-link", "/api/get-version"} :
          TimesRequested(p) <= 1
    /\ pc = "failed" => ~inflight

\* C11's case: the second POST raised or came back with a failure status,
\* and the run has ended.
C11_Witness ==
    /\ pc = "failed"
    /\ fault.kind \in {"transport", "status"}
    /\ fault.reqs = Len(requests)
    /\ TimesRequested("/api/rmap-get-link") = 1
    /\ ~GetVersionSent

\* status_code is the status of the first response (the second has not
\* arrived).
StatusOfFirst == status_code # 0 /\ resp2.shape = "none"

\* status_code is the status of the second response (no artifact response
\* has arrived).
StatusOfSecond == status_code # 0 /\ resp2.shape # "none" /\ pdf_resp = NoResp3

\* C12 (as claimed): on either handshake round trip a status outside 2xx is
\* a failure, exactly like a body without the expected member, and every 2xx
\* status is treated alike: a 2xx response that has the member is taken.
C12_SuccessOrFailureOnly ==
    /\ (StatusOfFirst /\ ~Is2xx(status_code))
          => pc = "failed" /\ payload_b64 = NoPayload
    /\ (StatusOfSecond /\ ~Is2xx(status_code))
          => pc = "failed" /\ link_token = Missing
    /\ (StatusOfFirst /\ Is2xx(status_code) /\ fault.kind = "none")
          => payload_b64 # NoPayload
    /\ (StatusOfSecond /\ Is2xx(status_code) /\ resp2.shape = "dict" /\ resp2.has_result)
          => link_token = resp2.result

\* The nonce check has run on a first response that echoes the generated
\* nonceClient as a JSON integer.
EchoVerified ==
    /\ Decrypted1
    /\ compared.set
    /\ obj1.nonceClient = JInt(nonce_client.n)

C14_KeyErrorsBeforeNetwork ==
    key_error => requests = <<>>

\* The request that carried message 2.
Msg2Request == requests[CHOOSE i \in 1 .. Len(requests) :
                            requests[i].path = "/api/rmap-get-link"]

\* The artifact request.
GetVersionRequest == requests[CHOOSE i \in 1 .. Len(requests) :
                                  requests[i].path = "/api/get-version"]

\* The first response decrypted to {nonceClient: n, nonceServer: ns} for the
\* generated nonce n and a peer nonce ns of [0, 2^64), and the nonce check
\* has run.
HappyFirst ==
    /\ nonce_client.set
    /\ obj1.shape = "dict"
    /\ obj1.nonceClient = JInt(nonce_client.n)
    /\ obj1.nonceServer.t = "int"
    /\ obj1.nonceServer.n \in Nonces
    /\ compared.set

\* The peer answered message 2 with status 200 and {"result": "abc123"}.
HappySecond ==
    /\ StatusOfSecond
    /\ status_code = 200
    /\ resp2 = [shape |-> "dict", has_result |-> TRUE, result |-> JText("abc123")]

\* C15: the happy path, for every nonce n and every peer nonce ns of
\* [0, 2^64) (the claim's 123456789 and 987654321 are one such pair): with
\* identity "Group_04", a first response that decrypts to
\* {nonceClient: n, nonceServer: ns} makes the client post the sealed
\* {nonceServer: ns} to /api/rmap-get-link; when the peer then answers
\* {"result": "abc123"} the link token is "abc123" and the artifact is
\* requested at /api/get-version/abc123.
C15_HappyPath ==
    /\ InitiateSent
          => PlainField(Msg1Request.payload.plain, "identity") = JText("Group_04")
    /\ HappyFirst
          => /\ pc = "msg2" \/ GetLinkSent
             /\ GetLinkSent
                   => Msg2Request.payload =
                         [to |-> server_pub_key.fp,
                          plain |-> << << <<"nonceServer">>, JInt(obj1.nonceServer.n) >> >>]
             /\ HappySecond
                   => /\ link_token = JText("abc123")
                      /\ pc = "get" \/ GetVersionSent
                      /\ GetVersionSent
                            => GetVersionRequest.token = JText("abc123")

\* C15's case: the whole happy path has been walked and the artifact
\* requested.
C15_Witness ==
    /\ HappyFirst
    /\ obj1.nonceServer.n # nonce_client.n
    /\ HappySecond
    /\ GetVersionSent
    /\ GetVersionRequest.method = "GET"

\* Python's == of two dicts: the same items, in whatever order.
DictEq(a, b) == {a[i] : i \in DOMAIN a} = {b[i] : i \in DOMAIN b}

\* The public key sealed to is the public half of the private key.
KeysMatch == codec.pub.fp = codec.priv.fp

\* C16 (as claimed): every mapping that json.dumps serializes, non-string
\* keys and nested values included, is opened to a mapping equal to itself
\* when the keys match; opening with a non-matching private key is a
\* decryption error.
C16_RoundTrip ==
    codec.pc = "opened"
        => IF KeysMatch
           THEN codec.opened.ok /\ DictEq(codec.opened.obj, codec.m)
           ELSE ~codec.opened.ok

\* A mapping as JSON has it: every key a str, no tuple among the values.
JsonNative(m) ==
    \A i \in DOMAIN m : m[i][1].t = "str" /\ m[i][2].t # "tuple"

\* C16 (amended): every mapping whose keys are strings and whose values are
\* JSON values (nested lists included) is sealed without error and opened
\* to a mapping equal to itself when the keys match; opening any envelope
\* with a non-matching private key is a decryption error, never a mapping.
C16_RoundTripOfJson ==
    /\ (codec.pc = "seal_raised" => ~JsonNative(codec.m))
    /\ (codec.pc = "opened" /\ KeysMatch /\ JsonNative(codec.m))
          => codec.opened.ok /\ DictEq(codec.opened.obj, codec.m)
    /\ (codec.pc = "opened" /\ ~KeysMatch)
          => ~codec.opened.ok /\ codec.opened.obj = <<>>

\* C16's case: a two-item mapping with a number and a nested list, inserted
\* in descending key order, has been sealed and opened with matching keys.
C16_Witness ==
    /\ codec.pc = "opened"
    /\ KeysMatch
    /\ codec.m = << <<JText("b"), JList>>, <<JText("a"), JInt(1)>> >>
    /\ codec.opened.ok

\* C17: the sealed plaintext depends only on the items of the mapping, not
\* on their insertion order, and its keys ascend.
C17_Canonical ==
    codec.pc \in {"sealed", "opened"}
        => /\ codec.sealed.plain = codec.sealed_other.plain
           /\ JsonNative(codec.m)
                 => \A i \in DOMAIN codec.sealed.plain, j \in DOMAIN codec.sealed.plain :
                       i < j => KeyRank(JStr(codec.sealed.plain[i][1]))
                                   < KeyRank(JStr(codec.sealed.plain[j][1]))

\* C17's case: a mapping and a different insertion order of it have both
\* been sealed.
C17_Witness ==
    /\ codec.pc = "sealed"
    /\ Len(codec.m) = 2
    /\ codec.other # codec.m
    /\ codec.sealed.plain # <<>>

\* C18: in the fixed variant, whenever the loaded server public key and the
\* client private key have the same fingerprint, main returns failure and no
\* POST /api/rmap-initiate is sent; when they differ the handshake starts.
C18_DifferentKeys ==
    (variant = "fixed" /\ server_pub_key.loaded /\ client_priv_key.loaded)
        => IF server_pub_key.fp = client_priv_key.fp
           THEN /\ ~InitiateSent
                /\ pc \in {"verify_keys", "failed"}
                /\ pc = "failed" => exit_code = Some(1)
           ELSE pc # "verify_keys" => (pc = "msg1" \/ InitiateSent)

\* C18's case: both keys of the fixed variant loaded with one fingerprint,
\* and main has returned.
C18_Witness ==
    /\ variant = "fixed"
    /\ server_pub_key.loaded
    /\ client_priv_key.loaded
    /\ server_pub_key.fp = client_priv_key.fp
    /\ pc = "failed"

\* The value sent is the value of the field: the same JSON value, or the
\* integer that the field denotes or equals in Python (1 for 1.0, "1", true).
SameValue(sent, field) ==
    \/ sent = field
    \/ sent.t = "int" /\ (Denotes(field, sent.n) \/ PyEqInt(field, sent.n))

\* C19 (as claimed): whenever POST /api/rmap-get-link has been sent, its
\* payload is sealed to the peer's public key and is the mapping with the
\* single key nonceServer whose value is the nonceServer of the decrypted
\* first response of the run.
C19_Message2IsNonceServer ==
    GetLinkSent
        => /\ Msg2Request.payload.to = server_pub_key.fp
           /\ Len(Msg2Request.payload.plain) = 1
           /\ Msg2Request.payload.plain[1][1] = <<"nonceServer">>
           /\ SameValue(Msg2Request.payload.plain[1][2], obj1.nonceServer)

\* A script's requests, the connectivity probe left out.
HandshakeRequests(v) == SelectSeq(dup.reqs[v], LAMBDA q : q.path # "/")

\* C20 (as claimed): against one sequence of peer responses all four scripts
\* issue the same sequence of requests (the probe of the fixed variant left
\* aside), and agree on whether the run goes on or has failed and on whether
\* an artifact file is written.
C20_VariantsAgree ==
    dup.step # "idle"
        => \A v \in Variants, w \in Variants :
              /\ HandshakeRequests(v) = HandshakeRequests(w)
              /\ dup.alive[v] = dup.alive[w]
              /\ dup.written[v] = dup.written[w]

\* C21: in every variant the artifact file is written only in a run in which
\* the echoed nonceClient was compared with the generated nonce and found
\* equal by the script, message 2 was sent, and a second response with a
\* `result` token was received; the bytes written are the body of the
\* response to GET /api/get-version/{token} for that token.
C21_ArtifactAfterHandshake ==
    file.written
        => /\ compared.set
           /\ compared = nonce_client
           /\ NonceCheckPasses(variant, obj1, nonce_client.n)
           /\ GetLinkSent
           /\ resp2.shape = "dict"
           /\ resp2.has_result
           /\ link_token = resp2.result
           /\ GetVersionSent
           /\ GetVersionRequest.token = resp2.result
           /\ file.content = pdf_resp.content

\* C21's case: the run has ended with the artifact file written.
C21_Witness ==
    /\ file.written
    /\ file.content = "%PDF"
    /\ pc = "done"
    /\ TimesRequested("/api/get-version") = 1

\* A candidate that is a file and loads.
Loads(i) == lookup.files[i] = "public"

\* C22: find_and_load_server_key returns the first entry of
\* SERVER_PUB_KEY_CANDIDATES, in list order, that is a file and loads, with
\* its path; candidates that are no file or fail to load are skipped and the
\* later ones still tried; it returns (None, None) exactly when no candidate
\* is a file that loads.
C22_FirstLoadableCandidate ==
    lookup.pc = "returned"
        => /\ lookup.key.loaded
                => /\ lookup.i \in DOMAIN SERVER_PUB_KEY_CANDIDATES
                   /\ Loads(lookup.i)
                   /\ \A j \in 1 .. (lookup.i - 1) : ~Loads(j)
                   /\ lookup.key = PubKey(lookup.fp, lookup.i)
           /\ ~lookup.key.loaded
                <=> \A j \in DOMAIN SERVER_PUB_KEY_CANDIDATES : ~Loads(j)
           /\ ~lookup.key.loaded => lookup.key = NoKey /\ lookup.i = 0
           /\ lookup.i = FirstLoadable(lookup.files)

\* C22's case: the first candidate is a file that fails to load, the second
\* is missing, and the third was returned.
C22_Witness ==
    /\ lookup.pc = "returned"
    /\ lookup.files[1] = "unloadable"
    /\ lookup.files[2] = "missing"
    /\ lookup.i = 3
    /\ lookup.key.loaded

\* C23 (as claimed): the fixed variant ends with exit status 0 if and only
\* if the artifact file was written, and every variant that ends in a failed
\* step ends with a non-zero exit status.
C23_ExitStatusMatchesOutcome ==
    /\ (variant = "fixed" /\ exit_code.set)
          => (exit_code.n = 0 <=> file.written)
    /\ pc \in Terminal <=> exit_code.set
    /\ pc = "failed" => exit_code.n # 0

\* C24: in the fixed variant, when the connectivity probe GET / raises or
\* times out, main returns failure with no key loaded and no handshake
\* request sent; when the probe is answered, whatever the status, the run
\* goes on to load the keys.
C24_ConnectivityGate ==
    /\ probed # "no" => variant = "fixed" /\ requests[1].path = "/"
    /\ probed = "raised"
          => /\ pc = "failed"
             /\ exit_code = Some(1)
             /\ server_pub_key = NoKey
             /\ client_priv_key = NoKey
             /\ ~key_error
             /\ Len(requests) = 1
    /\ probed = "answered"
          => \/ pc = "load_server"
             \/ key_error
             \/ server_pub_key.loaded
    /\ (variant = "fixed" /\ probed = "no") => pc \in {"start", "probe"}

\* C24's case: the probe raised and main has returned.
C24_Witness ==
    /\ variant = "fixed"
    /\ probed = "raised"
    /\ pc = "failed"

====
